---- MODULE Spec2Model ----
(***************************************************************************)
(* Corporate Dashboard Creator (src/DashboardAutomation.py).               *)
(*                                                                         *)
(* One run of main() is the pipeline                                       *)
(*   upload -> load -> detect_column_types -> suggest_visualizations ->    *)
(*   four chart tabs -> Excel link -> HTML export.                         *)
(* Streamlit re-executes main() from the top for every upload, so all the  *)
(* locals of main() are rebuilt per run.  The run reads data.csv from the   *)
(* working directory and writes output.csv and dashboard_charts.html       *)
(* there; it never reads back what it wrote.                               *)
(***************************************************************************)
EXTENDS Integers, Sequences, FiniteSets, TLC

(***************************************************************************)
(* Bounds of the model.                                                    *)
(***************************************************************************)
MaxCols == 3        \* columns of a small table
MaxRows == 3        \* rows of a small table
MaxOverrides == 1   \* selectors the user moves off their default in one run

(***************************************************************************)
(* Values.                                                                 *)
(***************************************************************************)
\* A missing cell (pandas NaN / NaT / None).  Present cells are codes >= 1:
\* the number itself in a numeric column, the rank of the string (or date)
\* in sort order in the other columns.
NA == -1

\* Python's None where a column name is expected.
None == [kind |-> "none", chars |-> <<>>]

\* A column label: pandas keeps a str header as str and an integer header
\* cell of a spreadsheet as int.
StrName(chars) == [kind |-> "str", chars |-> chars]
IntName(chars) == [kind |-> "int", chars |-> chars]

\* Python truthiness of a selected column (`not x_column`): None, the empty
\* string and the integer 0 are falsy.
Truthy(name) ==
    /\ name # None
    /\ name.chars # <<>>
    /\ ~(name.kind = "int" /\ name.chars = <<"0">>)

\* str.lower() on the characters the column names use.
LowerChar(c) ==
    CASE c = "A" -> "a" [] c = "B" -> "b" [] c = "C" -> "c" [] c = "D" -> "d"
      [] c = "Q" -> "q" [] c = "R" -> "r" [] c = "T" -> "t" [] c = "O" -> "o"
      [] OTHER -> c

Lower(chars) == [i \in 1..Len(chars) |-> LowerChar(chars[i])]

\* Python's `kw in s` on strings: kw occurs in s as a contiguous substring.
Contains(kw, s) ==
    \E i \in 0..(Len(s) - Len(kw)) : SubSeq(s, i + 1, i + Len(kw)) = kw

\* The keywords of suggest_visualizations.
KwCity == <<"c","i","t","y">>
KwAmount == <<"a","m","o","u","n","t">>
KwTransaction == <<"t","r","a","n","s","a","c","t","i","o","n">>
KwAccount == <<"a","c","c","o","u","n","t">>
KwType == <<"t","y","p","e">>
KwBank == <<"b","a","n","k">>
KwCount == <<"c","o","u","n","t">>

(***************************************************************************)
(* Files the user can upload.  A file holds a header row and typed         *)
(* columns; `kind` says what the present cells of a column are.            *)
(***************************************************************************)
Kinds == {"num", "str", "date"}

\* The cells of a column of n rows with u distinct present values, the
\* first `holes` rows missing.
Cells(u, holes, n) ==
    [i \in 1..n |-> IF i <= holes \/ u = 0 THEN NA ELSE ((i - 1) % u) + 1]

MkColumn(spec, n) ==
    [name |-> spec.name, kind |-> spec.kind, cells |-> Cells(spec.u, spec.holes, n)]

MkTable(specs, n) == [i \in 1..Len(specs) |-> MkColumn(specs[i], n)]

\* Columns of the small tables.
Catalogue ==
    { [name |-> StrName(<<"C","i","t","y">>),         kind |-> "str", u |-> 2, holes |-> 0],
      [name |-> StrName(<<"R","e","g","i","o","n">>), kind |-> "str", u |-> 3, holes |-> 1],
      [name |-> IntName(<<"0">>),                     kind |-> "str", u |-> 2, holes |-> 0],
      [name |-> StrName(<<"A","m","o","u","n","t">>), kind |-> "num", u |-> 4, holes |-> 0],
      [name |-> StrName(<<"D","i","s","c","o","u","n","t">>), kind |-> "num", u |-> 1, holes |-> 1] }

Range(s) == {s[i] : i \in DOMAIN s}

\* Sequences of at most k distinct elements of S.
RECURSIVE InjSeqs(_, _)
InjSeqs(S, k) ==
    IF k = 0 THEN {<<>>}
    ELSE LET shorter == InjSeqs(S, k - 1)
         IN shorter \cup
            UNION { {Append(s, x) : x \in S \ Range(s)} :
                    s \in {t \in shorter : Len(t) = k - 1} }

\* Small tables: up to MaxCols catalogue columns, up to MaxRows rows.  A
\* table without columns has no rows.
SmallTables ==
    { MkTable(specs, n) : specs \in InjSeqs(Catalogue, MaxCols) \ {<<>>}, n \in 0..MaxRows }
    \cup {<<>>}

\* Tall tables: one column, with row and distinct counts on both sides of
\* the ratio thresholds of detect_column_types.
TallRows == {10, 19, 20, 21, 180, 181, 201, 300, 301, 310, 311}
TallUniques == {0, 1, 9, 10, 29, 30, 31}
TallSpecs ==
    [name : {StrName(<<"C","o","d","e">>)}, kind : Kinds, u : TallUniques, holes : {0, 1}]
TallTables == { MkTable(<<spec>>, n) : spec \in TallSpecs, n \in TallRows }

\* City = NY, NY, LA and Amount = 10, 20, 5 ("LA" sorts before "NY").
ExampleTable ==
    << [name |-> StrName(<<"C","i","t","y">>),         kind |-> "str", cells |-> <<2, 2, 1>>],
       [name |-> StrName(<<"A","m","o","u","n","t">>), kind |-> "num", cells |-> <<10, 20, 5>>] >>

\* What the user uploads as a spreadsheet and as delimited text.  Delimited
\* text has no typed header cells.
XlsxUploads == SmallTables \cup TallTables \cup {ExampleTable}
CsvUploads ==
    { t \in SmallTables : Len(t) <= 1 /\ \A i \in DOMAIN t : t[i].name.kind = "str" }

\* The file data.csv of the working directory: missing, or some table that
\* was put there outside the program.
Absent == [exists |-> FALSE, table |-> <<>>]
OnDisk(table) == [exists |-> TRUE, table |-> table]
DataCsvTable ==
    MkTable(<<[name |-> StrName(<<"C","i","t","y">>),         kind |-> "str",  u |-> 2, holes |-> 0],
              [name |-> StrName(<<"O","p","e","n","e","d">>), kind |-> "date", u |-> 2, holes |-> 0],
              [name |-> StrName(<<"A","m","o","u","n","t">>), kind |-> "num",  u |-> 4, holes |-> 0]>>, 2)
DataCsvStates == {Absent, OnDisk(DataCsvTable)}

(***************************************************************************)
(* Loading: pd.read_csv / pd.read_excel.                                   *)
(***************************************************************************)
\* The result of a call: a value, or the exception it raised.
Return(v) == [raised |-> "", value |-> v]
Raise(type) == [raised |-> type, value |-> <<>>]

AllMissing(cells) == \A i \in DOMAIN cells : cells[i] = NA

\* The dtype pandas infers for a parsed column.  No rows: object.  Rows but
\* no present cell: float64 (all NaN).  Dates are parsed only from the typed
\* cells of a spreadsheet; read_csv leaves them as strings.
InferDtype(col, fmt) ==
    IF Len(col.cells) = 0 THEN "object"
    ELSE IF AllMissing(col.cells) THEN "numeric"
    ELSE IF col.kind = "num" THEN "numeric"
    ELSE IF col.kind = "date" /\ fmt = "xlsx" THEN "datetime64"
    ELSE "object"

\* The table a delimited-text file decodes to: every header is a str.
ParseCsv(table) ==
    [i \in 1..Len(table) |->
        [name  |-> StrName(table[i].name.chars),
         dtype |-> InferDtype(table[i], "csv"),
         cells |-> table[i].cells]]

\* pd.read_csv(path) on a file of the working directory.
ReadCsv(file) ==
    IF ~file.exists THEN Raise("FileNotFoundError")
    ELSE IF Len(file.table) = 0 THEN Raise("EmptyDataError")
    ELSE Return(ParseCsv(file.table))

\* pd.read_excel(uploaded_file): header cells keep their type.
ReadExcel(table) ==
    Return([i \in 1..Len(table) |->
              [name  |-> table[i].name,
               dtype |-> InferDtype(table[i], "xlsx"),
               cells |-> table[i].cells]])

\* df[column].nunique(): missing cells are not counted.
NUnique(cells) == Cardinality(Range(cells) \ {NA})

(***************************************************************************)
(* detect_column_types                                                     *)
(***************************************************************************)
\* ClassifyNumeric with the ratio test written <= 0.05.
ClassifyNumericInclusive(u, n) ==
    IF u < 10
    THEN IF n = 0 THEN "ZeroDivisionError"
         ELSE IF 100 * u <= 5 * n THEN "categorical_numeric" ELSE "metric"
    ELSE "metric"

\* ClassifyNumeric without the ratio test.
ClassifyNumericFewValues(u, n) ==
    IF u < 10
    THEN IF n = 0 THEN "ZeroDivisionError" ELSE "categorical_numeric"
    ELSE "metric"

\* Line 120.  `and` evaluates the ratio only when u < 10; with no rows the
\* division raises.  u / n < 0.05 is 100 * u < 5 * n for n > 0.
ClassifyNumeric(u, n) ==
    IF u < 10
    THEN IF n = 0 THEN "ZeroDivisionError"
         ELSE IF 100 * u < 5 * n THEN "categorical_numeric" ELSE "metric"
    ELSE "metric"

\* ClassifyOther with `and` between its two tests.
ClassifyOtherBoth(u, n) ==
    IF u < 30
    THEN IF n = 0 THEN "ZeroDivisionError"
         ELSE IF 10 * u < n THEN "categorical" ELSE "text"
    ELSE "text"

\* Line 128.  `or` evaluates the ratio only when u >= 30.  u / n < 0.1 is
\* 10 * u < n for n > 0.
ClassifyOther(u, n) ==
    IF u < 30 THEN "categorical"
    ELSE IF n = 0 THEN "ZeroDivisionError"
    ELSE IF 10 * u < n THEN "categorical" ELSE "text"

ClassifyColumn(col) ==
    IF col.dtype = "numeric" THEN ClassifyNumeric(NUnique(col.cells), Len(col.cells))
    ELSE IF col.dtype = "datetime64" THEN "datetime"
    ELSE ClassifyOther(NUnique(col.cells), Len(col.cells))

\* The dict column -> type, in column order; the first failing column
\* raises.
detect_column_types(df) ==
    LET types == [i \in 1..Len(df) |-> [name |-> df[i].name, type |-> ClassifyColumn(df[i])]]
    IN IF \E i \in 1..Len(df) : types[i].type = "ZeroDivisionError"
       THEN Raise("ZeroDivisionError")
       ELSE Return(types)

ColsOfType(column_types, wanted) ==
    SelectSeq(column_types, LAMBDA ct : ct.type \in wanted)

NamesOf(cts) == [i \in 1..Len(cts) |-> cts[i].name]

\* The option lists of the selectors and the candidate lists of the
\* suggester.
CategoricalCols(column_types) ==
    NamesOf(ColsOfType(column_types, {"categorical", "categorical_numeric"}))
MetricCols(column_types) == NamesOf(ColsOfType(column_types, {"metric"}))

(***************************************************************************)
(* suggest_visualizations                                                  *)
(***************************************************************************)
\* `kw1 in col.lower() or kw2 in col.lower()` for a str column name.
MatchesAny(name, kws) == \E kw \in kws : Contains(kw, Lower(name.chars))

\* next((col for col in cols if <keyword test>), default): the first column
\* passing the test, else the default.  The test calls col.lower(), which an
\* int column name does not have.
RECURSIVE FirstMatch(_, _, _)
FirstMatch(cols, kws, default) ==
    IF Len(cols) = 0 THEN Return(default)
    ELSE IF Head(cols).kind = "int" THEN Raise("AttributeError")
    ELSE IF MatchesAny(Head(cols), kws) THEN Return(Head(cols))
    ELSE FirstMatch(Tail(cols), kws, default)

\* next((col for col in cols), None)
FirstOrNone(cols) == Return(IF Len(cols) = 0 THEN None ELSE Head(cols))

\* Line 163: next((col for col in categorical_cols
\*                 if col != suggestions["account_type_columns"]["names"]), None).
\* The test reads the local `suggestions` while the dict that will be bound
\* to it is still being built, so the first column tested raises NameError.
FirstOtherThanAccountNames(cols) ==
    IF Len(cols) = 0 THEN Return(None) ELSE Raise("NameError")

\* One role: Python evaluates the default (the fallback search) before the
\* keyword search runs.
Role(cols, kws, fallback) ==
    IF fallback.raised # "" THEN fallback
    ELSE FirstMatch(cols, kws, fallback.value)

\* The eight roles in the order the dict literal evaluates them.
RoleResults(column_types) ==
    LET cat == CategoricalCols(column_types)
        met == MetricCols(column_types)
    IN << Role(cat, {KwCity}, FirstOrNone(cat)),
          Role(met, {KwAmount, KwTransaction}, FirstOrNone(met)),
          Role(cat, {KwAccount, KwType}, FirstOrNone(cat)),
          Role(met, {KwAmount, KwTransaction}, FirstOrNone(met)),
          Role(met, {KwAmount, KwTransaction}, FirstOrNone(met)),
          Role(cat, {KwBank}, FirstOrNone(cat)),
          Role(cat, {KwType, KwTransaction}, FirstOtherThanAccountNames(cat)),
          Role(met, {KwAmount, KwCount}, FirstOrNone(met)) >>

suggest_visualizations(column_types) ==
    LET r == RoleResults(column_types)
        failed == {i \in 1..Len(r) : r[i].raised # ""}
    IN IF failed # {}
       THEN Raise(r[CHOOSE i \in failed : \A j \in failed : i <= j].raised)
       ELSE Return(
              [city_transactions_columns |-> [x_axis |-> r[1].value, y_axis |-> r[2].value],
               account_type_columns      |-> [names  |-> r[3].value, values |-> r[4].value],
               bank_transactions_columns |-> [x_axis |-> r[5].value, y_axis |-> r[6].value],
               transaction_type_columns  |-> [x_axis |-> r[7].value, y_axis |-> r[8].value]])

\* vis_suggestions = {} (line 381): every .get(...).get(...) gives None.
NoSuggestions == [present |-> FALSE, templates |-> <<>>]

\* vis_suggestions.get(template, {}).get(role)
Suggested(vs, template, role) ==
    IF vs.present THEN vs.templates[template][role] ELSE None

(***************************************************************************)
(* Chart creation                                                          *)
(***************************************************************************)
ColumnNames(df) == [i \in 1..Len(df) |-> df[i].name]
HasColumn(df, name) == \E i \in 1..Len(df) : df[i].name = name
ColumnCells(df, name) == df[CHOOSE i \in 1..Len(df) : df[i].name = name].cells

RECURSIVE SumOver(_, _)
SumOver(cells, rows) ==
    IF rows = {} THEN 0
    ELSE LET r == CHOOSE x \in rows : TRUE
         IN (IF cells[r] = NA THEN 0 ELSE cells[r]) + SumOver(cells, rows \ {r})

\* df.groupby(by)[value].sum(): one group per distinct present key, rows
\* with a missing key dropped, missing values skipped by the sum.
GroupKeys(df, by) == Range(ColumnCells(df, by)) \ {NA}
GroupSum(df, by, value) ==
    LET keys == ColumnCells(df, by)
        vals == ColumnCells(df, value)
    IN [k \in GroupKeys(df, by) |-> SumOver(vals, {r \in DOMAIN keys : keys[r] = k})]

Perms(S) == {s \in InjSeqs(S, Cardinality(S)) : Len(s) = Cardinality(S)}

\* .reset_index(): the groups in ascending key order (groupby sorts).
GroupedFrame(sums) ==
    LET order == CHOOSE s \in Perms(DOMAIN sums) :
                    \A i, j \in DOMAIN s : i < j => s[i] < s[j]
    IN [i \in DOMAIN order |-> <<order[i], sums[order[i]]>>]

\* SortValues with ascending=False in every call.
SortValuesDescendingOnly(sums, ascending) ==
    { [i \in DOMAIN s |-> <<s[i], sums[s[i]]>>] :
        s \in { t \in Perms(DOMAIN sums) :
                  \A i, j \in DOMAIN t : i < j => sums[t[i]] >= sums[t[j]] } }

\* .sort_values(by=value, ascending=...): pandas sorts one column with
\* kind='quicksort', which is not stable, so rows with equal sums come out
\* in any order.
SortValues(sums, ascending) ==
    { [i \in DOMAIN s |-> <<s[i], sums[s[i]]>>] :
        s \in { t \in Perms(DOMAIN sums) :
                  \A i, j \in DOMAIN t :
                     i < j => IF ascending THEN sums[t[i]] <= sums[t[j]]
                              ELSE sums[t[i]] >= sums[t[j]] } }

Figure(kind, dim, val, data) == [kind |-> kind, dim |-> dim, val |-> val, data |-> data]
NoChart == Figure("none", None, None, <<>>)

\* create_city_transactions_chart testing `is None` instead of truthiness.
CreateCityChartUnlessNone(df, x_column, y_column) ==
    IF x_column = None \/ y_column = None THEN {NoChart}
    ELSE { Figure("bar", x_column, y_column, data) :
             data \in SortValues(GroupSum(df, x_column, y_column), FALSE) }

\* Each create_* gives the charts the call can return.
create_city_transactions_chart(df, x_column, y_column) ==
    IF ~Truthy(x_column) \/ ~Truthy(y_column) THEN {NoChart}
    ELSE { Figure("bar", x_column, y_column, data) :
             data \in SortValues(GroupSum(df, x_column, y_column), FALSE) }

create_account_type_pie_chart(df, name_column, value_column) ==
    IF ~Truthy(name_column) \/ ~Truthy(value_column) THEN {NoChart}
    ELSE { Figure("pie", name_column, value_column,
                  GroupedFrame(GroupSum(df, name_column, value_column))) }

create_bank_transactions_bar_chart(df, x_column, y_column) ==
    IF ~Truthy(x_column) \/ ~Truthy(y_column) THEN {NoChart}
    ELSE { Figure("hbar", y_column, x_column, data) :
             data \in SortValues(GroupSum(df, y_column, x_column), TRUE) }

create_transaction_types_chart(df, x_column, y_column) ==
    IF ~Truthy(x_column) \/ ~Truthy(y_column) THEN {NoChart}
    ELSE { Figure("bar", x_column, y_column, data) :
             data \in SortValues(GroupSum(df, x_column, y_column), FALSE) }

(***************************************************************************)
(* Selectors of main()                                                     *)
(***************************************************************************)
\* next((i for i, col in enumerate(seq) if col == wanted), 0)
IndexOf(seq, wanted) ==
    IF \E i \in 1..Len(seq) : seq[i] = wanted
    THEN (CHOOSE i \in 1..Len(seq) : seq[i] = wanted /\ \A j \in 1..(i - 1) : seq[j] # wanted) - 1
    ELSE 0

\* Lines 409-411: the index of a dimension selector enumerates df.columns.
DimensionIndex(df, suggestion) ==
    IF HasColumn(df, suggestion) THEN IndexOf(ColumnNames(df), suggestion) ELSE 0

\* Lines 418-420: the index of a value selector enumerates the metric columns.
ValueIndex(df, column_types, suggestion) ==
    IF HasColumn(df, suggestion) THEN IndexOf(MetricCols(column_types), suggestion) ELSE 0

\* st.selectbox(options, index): rejects an index outside a non-empty option
\* list, returns None for an empty one, else what the user has selected
\* (options[index] until the user picks another).
SelectBox(options, index) ==
    IF Len(options) > 0 /\ ~(0 <= index /\ index < Len(options))
    THEN {Raise("StreamlitAPIException")}
    ELSE IF Len(options) = 0 THEN {Return(None)}
    ELSE {Return(options[i]) : i \in 1..Len(options)}

SelectBoxDefault(options, index) ==
    IF Len(options) > 0 /\ 0 <= index /\ index < Len(options) THEN options[index + 1] ELSE None

(***************************************************************************)
(* Export                                                                  *)
(***************************************************************************)
\* A workbook is its sheets, each a table.  get_excel_download_link opens an
\* ExcelWriter on the buffer and writes no sheet through it: df.to_csv goes
\* to the file output.csv.  Leaving the `with` block saves the workbook.
EmptyWorkbook == <<>>

\* What saving a workbook without sheets does: openpyxl refuses
\* ("At least one sheet must be visible", IndexError); releases without that
\* check write a workbook that has no sheet.
SaveWorkbook(book) ==
    IF Len(book) = 0 THEN {Raise("IndexError"), Return(book)} ELSE {Return(book)}

\* The <a href="data:...;base64,..."> link: the bytes it carries.
get_excel_download_link(df) ==
    { IF saved.raised # "" THEN saved ELSE Return([filename |-> "dashboard_data.xlsx", blob |-> saved.value]) :
        saved \in SaveWorkbook(EmptyWorkbook) }

Titles == <<"City Transactions", "Account Types", "Bank Transactions", "Transaction Types">>
TitleSet == Range(Titles)

\* save_charts_to_html: one section per chart of the dict that is truthy,
\* in insertion order (the tab order).
save_charts_to_html(charts) ==
    LET kept == SelectSeq(Titles, LAMBDA t : charts[t] # NoChart)
    IN [i \in 1..Len(kept) |-> [title |-> kept[i], chart |-> charts[kept[i]]]]

(***************************************************************************)
(* State                                                                   *)
(***************************************************************************)
VARIABLES
    uploaded,         \* st.file_uploader: the file of the current run
    data_csv,         \* the file data.csv of the working directory
    written,          \* the files the current run has written there
    pc,               \* where main() stands
    df,               \* the loaded DataFrame
    column_types,     \* detect_column_types(df)
    vis_suggestions,  \* suggest_visualizations(df, column_types), or {}
    selectors,        \* per tab: the two selected columns and their defaults
    overrides,        \* selectors of the run that are off their default
    all_charts,       \* title -> chart (NoChart: not in the dict)
    rendered,         \* the charts passed to st.plotly_chart
    warnings,         \* st.warning messages of the run
    error,            \* st.error of the run ("" if none)
    excel_link,       \* the Excel download link of the run
    html_link         \* the HTML download link of the run

vars == <<uploaded, data_csv, written, pc, df, column_types, vis_suggestions, selectors, overrides,
          all_charts, rendered, warnings, error, excel_link, html_link>>

NoUpload == [ext |-> "none", content |-> <<>>]
NoSelection == [dim |-> None, val |-> None, dim_default |-> None, val_default |-> None]
NoLink == [present |-> FALSE, blob |-> <<>>]

\* The locals of main() at the start of a run.
FreshRun ==
    /\ df = <<>>
    /\ column_types = <<>>
    /\ vis_suggestions = NoSuggestions
    /\ selectors = [t \in TitleSet |-> NoSelection]
    /\ overrides = 0
    /\ all_charts = [t \in TitleSet |-> NoChart]
    /\ rendered = {}
    /\ written = {}
    /\ warnings = {}
    /\ error = ""
    /\ excel_link = NoLink
    /\ html_link = NoLink

\* A rerun rebuilds them.
StartRun ==
    /\ df' = <<>>
    /\ column_types' = <<>>
    /\ vis_suggestions' = NoSuggestions
    /\ selectors' = [t \in TitleSet |-> NoSelection]
    /\ overrides' = 0
    /\ all_charts' = [t \in TitleSet |-> NoChart]
    /\ rendered' = {}
    /\ written' = {}
    /\ warnings' = {}
    /\ error' = ""
    /\ excel_link' = NoLink
    /\ html_link' = NoLink

Init ==
    /\ uploaded = NoUpload
    /\ data_csv \in DataCsvStates
    /\ pc = "idle"
    /\ FreshRun

\* The outer `except Exception` of main(): st.error, and the run is over.
Fail(type) ==
    /\ error' = type
    /\ pc' = "done"

(***************************************************************************)
(* Actions                                                                 *)
(***************************************************************************)
\* Line 340: the user uploads a file; Streamlit runs main() anew.
Upload ==
    /\ pc = "idle"
    /\ \E ext \in {"csv", "xlsx"} :
         \E content \in (IF ext = "csv" THEN CsvUploads ELSE XlsxUploads) :
            uploaded' = [ext |-> ext, content |-> content]
    /\ pc' = "load"
    /\ StartRun
    /\ UNCHANGED data_csv

\* Lines 340-342: the user removes the file from the uploader; main() runs
\* anew with uploaded_file None and shows nothing.
RemoveFile ==
    /\ pc = "done"
    /\ uploaded' = NoUpload
    /\ pc' = "idle"
    /\ StartRun
    /\ UNCHANGED data_csv

\* Lines 343-358.
LoadData ==
    /\ pc = "load"
    /\ LET loaded == IF uploaded.ext = "csv"
                     THEN ReadCsv(data_csv)
                     ELSE ReadExcel(uploaded.content)
       IN IF loaded.raised # ""
          THEN Fail(loaded.raised) /\ UNCHANGED df
          ELSE df' = loaded.value /\ pc' = "detect" /\ UNCHANGED error
    /\ UNCHANGED <<uploaded, data_csv, written, column_types, vis_suggestions, selectors, overrides,
                   all_charts, rendered, warnings, excel_link, html_link>>

\* Lines 360-378.
DetectColumnTypes ==
    /\ pc = "detect"
    /\ LET types == detect_column_types(df)
       IN IF types.raised # ""
          THEN Fail(types.raised) /\ UNCHANGED column_types
          ELSE column_types' = types.value /\ pc' = "suggest" /\ UNCHANGED error
    /\ UNCHANGED <<uploaded, data_csv, written, df, vis_suggestions, selectors, overrides,
                   all_charts, rendered, warnings, excel_link, html_link>>

\* Lines 380-396: a failing suggester leaves vis_suggestions = {} and warns.
SuggestVisualizations ==
    /\ pc = "suggest"
    /\ LET s == suggest_visualizations(column_types)
       IN IF s.raised # ""
          THEN /\ vis_suggestions' = NoSuggestions
               /\ warnings' = warnings \cup {"suggest: " \o s.raised}
          ELSE /\ vis_suggestions' = [present |-> TRUE, templates |-> s.value]
               /\ UNCHANGED warnings
    /\ pc' = "tab_city"
    /\ UNCHANGED <<uploaded, data_csv, written, df, column_types, selectors, overrides,
                   all_charts, rendered, error, excel_link, html_link>>

\* The create_* call of a tab, with the selected dimension and value column.
CreateChart(title, d, v) ==
    CASE title = "City Transactions"  -> create_city_transactions_chart(df, d, v)
      [] title = "Account Types"      -> create_account_type_pie_chart(df, d, v)
      [] title = "Bank Transactions"  -> create_bank_transactions_bar_chart(df, v, d)
      [] title = "Transaction Types"  -> create_transaction_types_chart(df, d, v)

\* One tab: the two selectors, the chart, and its place in all_charts.
TabStep(title, template, dimRole, valRole, next) ==
    LET cat  == CategoricalCols(column_types)
        met  == MetricCols(column_types)
        dIdx == DimensionIndex(df, Suggested(vis_suggestions, template, dimRole))
        vIdx == ValueIndex(df, column_types, Suggested(vis_suggestions, template, valRole))
        dDef == SelectBoxDefault(cat, dIdx)
        vDef == SelectBoxDefault(met, vIdx)
    IN \E d \in SelectBox(cat, dIdx), v \in SelectBox(met, vIdx) :
         IF d.raised # "" \/ v.raised # ""
         THEN /\ Fail("StreamlitAPIException")
              /\ UNCHANGED <<selectors, overrides, all_charts, rendered, warnings>>
         ELSE \E chart \in CreateChart(title, d.value, v.value) :
                LET moved == (IF d.value # dDef THEN 1 ELSE 0) + (IF v.value # vDef THEN 1 ELSE 0)
                IN /\ overrides + moved <= MaxOverrides
                   /\ overrides' = overrides + moved
                   /\ selectors' = [selectors EXCEPT ![title] =
                                      [dim |-> d.value, val |-> v.value,
                                       dim_default |-> dDef, val_default |-> vDef]]
                   /\ IF chart # NoChart
                      THEN /\ rendered' = rendered \cup {title}
                           /\ all_charts' = [all_charts EXCEPT ![title] = chart]
                           /\ UNCHANGED warnings
                      ELSE /\ warnings' = warnings \cup {title}
                           /\ UNCHANGED <<rendered, all_charts>>
                   /\ pc' = next
                   /\ UNCHANGED error

\* Lines 398-429.
TabCity ==
    /\ pc = "tab_city"
    /\ TabStep("City Transactions", "city_transactions_columns", "x_axis", "y_axis", "tab_account")
    /\ UNCHANGED <<uploaded, data_csv, written, df, column_types, vis_suggestions, excel_link, html_link>>

\* Lines 431-462.
TabAccount ==
    /\ pc = "tab_account"
    /\ TabStep("Account Types", "account_type_columns", "names", "values", "tab_bank")
    /\ UNCHANGED <<uploaded, data_csv, written, df, column_types, vis_suggestions, excel_link, html_link>>

\* Lines 464-496.
TabBank ==
    /\ pc = "tab_bank"
    /\ TabStep("Bank Transactions", "bank_transactions_columns", "y_axis", "x_axis", "tab_type")
    /\ UNCHANGED <<uploaded, data_csv, written, df, column_types, vis_suggestions, excel_link, html_link>>

\* Lines 498-530.
TabType ==
    /\ pc = "tab_type"
    /\ TabStep("Transaction Types", "transaction_type_columns", "x_axis", "y_axis", "export_excel")
    /\ UNCHANGED <<uploaded, data_csv, written, df, column_types, vis_suggestions, excel_link, html_link>>

\* Lines 532-538: the table goes to output.csv; the link carries the
\* workbook, if saving it did not raise.
ExportExcel ==
    /\ pc = "export_excel"
    /\ written' = written \cup {"output.csv"}
    /\ \E link \in get_excel_download_link(df) :
         IF link.raised # ""
         THEN Fail(link.raised) /\ UNCHANGED excel_link
         ELSE /\ excel_link' = [present |-> TRUE, blob |-> link.value.blob]
              /\ pc' = "export_html"
              /\ UNCHANGED error
    /\ UNCHANGED <<uploaded, data_csv, df, column_types, vis_suggestions, selectors, overrides,
                   all_charts, rendered, warnings, html_link>>

\* Lines 540-544: with at least one chart, the charts are written to
\* dashboard_charts.html and linked.
ExportHtml ==
    /\ pc = "export_html"
    /\ IF \E t \in TitleSet : all_charts[t] # NoChart
       THEN /\ written' = written \cup {"dashboard_charts.html"}
            /\ html_link' = [present |-> TRUE, blob |-> save_charts_to_html(all_charts)]
       ELSE UNCHANGED <<written, html_link>>
    /\ pc' = "done"
    /\ UNCHANGED <<uploaded, data_csv, df, column_types, vis_suggestions, selectors, overrides,
                   all_charts, rendered, warnings, error, excel_link>>

Next ==
    \/ Upload
    \/ RemoveFile
    \/ LoadData
    \/ DetectColumnTypes
    \/ SuggestVisualizations
    \/ TabCity
    \/ TabAccount
    \/ TabBank
    \/ TabType
    \/ ExportExcel
    \/ ExportHtml

Spec == Init /\ [][Next]_vars

(***************************************************************************)
(* Properties                                                              *)
(***************************************************************************)
\* Where main() stands once a stage has completed in the current run.
TabStages == {"tab_city", "tab_account", "tab_bank", "tab_type"}
ExportStages == {"export_excel", "export_html"}
LaterErrors == {"", "IndexError", "StreamlitAPIException"}
Loaded == pc \in {"detect", "suggest"} \cup TabStages \cup ExportStages
Detected ==
    \/ pc \in {"suggest"} \cup TabStages \cup ExportStages
    \/ pc = "done" /\ error \in LaterErrors
Suggestions == pc \in TabStages \cup ExportStages
TabsDone ==
    \/ pc \in ExportStages
    \/ pc = "done" /\ error \in {"", "IndexError"}

\* u and n of a column, as the claims count them.
DistinctPresent(col) == Cardinality({col.cells[r] : r \in 1..Len(col.cells)} \ {NA})
RowCount(col) == Len(col.cells)
TypeOf(i) == column_types[i].type

\* C1: every numeric column of a loaded table is categorical_numeric exactly
\* when u < 10 and 20 * u < n, and metric otherwise; detection does not fail.
C1_NumericClassification ==
    /\ error # "ZeroDivisionError"
    /\ Detected =>
         /\ Len(column_types) = Len(df)
         /\ \A i \in 1..Len(df) :
              df[i].dtype = "numeric" =>
                LET u == DistinctPresent(df[i])
                    n == RowCount(df[i])
                IN /\ column_types[i].name = df[i].name
                   /\ TypeOf(i) = IF u < 10 /\ 20 * u < n THEN "categorical_numeric" ELSE "metric"

\* A numeric code column (few values, many rows) has been classified
\* categorical_numeric.
C1_Witness ==
    /\ Detected
    /\ \E i \in 1..Len(df) :
         /\ df[i].dtype = "numeric"
         /\ DistinctPresent(df[i]) = 9
         /\ RowCount(df[i]) = 181
         /\ TypeOf(i) = "categorical_numeric"

\* C2: every column that is neither numeric nor datetime is categorical
\* exactly when u < 30 or 10 * u < n, and text otherwise; with u = 1 and
\* n >= 1 it is categorical.
C2_OtherClassification ==
    Detected =>
      /\ Len(column_types) = Len(df)
      /\ \A i \in 1..Len(df) :
           df[i].dtype = "object" =>
             LET u == DistinctPresent(df[i])
                 n == RowCount(df[i])
             IN /\ TypeOf(i) = IF u < 30 \/ 10 * u < n THEN "categorical" ELSE "text"
                /\ (u = 1 /\ n >= 1) => TypeOf(i) = "categorical"

\* A column with 30 distinct values in 300 rows has been classified text.
C2_Witness ==
    /\ Detected
    /\ \E i \in 1..Len(df) :
         /\ df[i].dtype = "object"
         /\ DistinctPresent(df[i]) = 30
         /\ RowCount(df[i]) = 300
         /\ TypeOf(i) = "text"

\* C3: a column with no rows or no present value never makes detection
\* fail with a division by zero, and is metric when numeric and text when
\* non-numeric.
C3_EmptyColumns ==
    /\ error # "ZeroDivisionError"
    /\ Detected =>
         /\ Len(column_types) = Len(df)
         /\ \A i \in 1..Len(df) :
              (RowCount(df[i]) = 0 \/ DistinctPresent(df[i]) = 0) =>
                 /\ df[i].dtype = "numeric" => TypeOf(i) = "metric"
                 /\ df[i].dtype = "object" => TypeOf(i) = "text"

\* The roles of the four templates in processing order, with the class of
\* column each takes and the keywords of its first search stage.
RoleTable ==
    << [template |-> "city_transactions_columns", role |-> "x_axis", dimension |-> TRUE,
        kws |-> {KwCity}],
       [template |-> "city_transactions_columns", role |-> "y_axis", dimension |-> FALSE,
        kws |-> {KwAmount, KwTransaction}],
       [template |-> "account_type_columns", role |-> "names", dimension |-> TRUE,
        kws |-> {KwAccount, KwType}],
       [template |-> "account_type_columns", role |-> "values", dimension |-> FALSE,
        kws |-> {KwAmount, KwTransaction}],
       [template |-> "bank_transactions_columns", role |-> "y_axis", dimension |-> TRUE,
        kws |-> {KwBank}],
       [template |-> "bank_transactions_columns", role |-> "x_axis", dimension |-> FALSE,
        kws |-> {KwAmount, KwTransaction}],
       [template |-> "transaction_type_columns", role |-> "x_axis", dimension |-> TRUE,
        kws |-> {KwType, KwTransaction}],
       [template |-> "transaction_type_columns", role |-> "y_axis", dimension |-> FALSE,
        kws |-> {KwAmount, KwCount}] >>

Eligible(r) == IF r.dimension THEN CategoricalCols(column_types) ELSE MetricCols(column_types)
Binding(r) == Suggested(vis_suggestions, r.template, r.role)
KeywordHits(r) == {i \in 1..Len(Eligible(r)) : MatchesAny(Eligible(r)[i], r.kws)}

\* The two-stage search: the lowest-index eligible column with a keyword,
\* else the lowest-index eligible column, else None.
TwoStage(r) ==
    IF KeywordHits(r) # {}
    THEN Eligible(r)[CHOOSE i \in KeywordHits(r) : \A j \in KeywordHits(r) : i <= j]
    ELSE IF Len(Eligible(r)) > 0 THEN Eligible(r)[1]
    ELSE None

\* C4: suggest_visualizations returns without raising, with all four
\* templates and each role mapped to a column of the table or to null.
C4_SuggestReturns ==
    Suggestions =>
      /\ vis_suggestions.present
      /\ \A k \in 1..Len(RoleTable) :
           Binding(RoleTable[k]) = None \/ HasColumn(df, Binding(RoleTable[k]))

\* C5: every role is bound by the two-stage search, and is null if and only
\* if the table has no eligible column.
C5_TwoStageBinding ==
    Suggestions =>
      \A k \in 1..Len(RoleTable) :
         /\ Binding(RoleTable[k]) = TwoStage(RoleTable[k])
         /\ Binding(RoleTable[k]) = None <=> Len(Eligible(RoleTable[k])) = 0

\* C6: when the dimension role of a template has no keyword match, so that
\* it falls back to the first eligible column X, and the search has bound an
\* earlier template's dimension to X, and another eligible column exists,
\* the later template's dimension is bound to a column other than X.
\* (Stated for tables whose eligible column labels are strings, which is
\* what a keyword match is defined on.)
C6_CrossTemplateExclusion ==
    Suggestions =>
      \A l \in 1..Len(RoleTable) : \A e \in 1..(l - 1) :
         ( /\ RoleTable[l].dimension
           /\ RoleTable[e].dimension
           /\ \A i \in 1..Len(Eligible(RoleTable[l])) : Eligible(RoleTable[l])[i].kind = "str"
           /\ Len(Eligible(RoleTable[l])) >= 2
           /\ KeywordHits(RoleTable[l]) = {}
           /\ TwoStage(RoleTable[e]) = Eligible(RoleTable[l])[1] )
         => /\ HasColumn(df, Binding(RoleTable[l]))
            /\ Binding(RoleTable[l]) # Eligible(RoleTable[l])[1]

\* The sum of the value column over the rows whose dimension cell is key,
\* read row by row.
RECURSIVE SumOfGroup(_, _, _, _)
SumOfGroup(dimCells, valCells, key, upto) ==
    IF upto = 0 THEN 0
    ELSE SumOfGroup(dimCells, valCells, key, upto - 1)
         + (IF dimCells[upto] = key /\ valCells[upto] # NA THEN valCells[upto] ELSE 0)

\* The series of a chart holds exactly one (key, sum) pair per distinct
\* present value of its dimension column.
OnePairPerGroup(chart) ==
    LET dimCells == ColumnCells(df, chart.dim)
        valCells == ColumnCells(df, chart.val)
        keys == {dimCells[r] : r \in 1..Len(dimCells)} \ {NA}
    IN /\ Len(chart.data) = Cardinality(keys)
       /\ {chart.data[i][1] : i \in 1..Len(chart.data)} = keys
       /\ \A i \in 1..Len(chart.data) :
            chart.data[i][2] = SumOfGroup(dimCells, valCells, chart.data[i][1], Len(dimCells))

DescendingBySum(data) == \A i, j \in 1..Len(data) : i < j => data[i][2] >= data[j][2]
AscendingBySum(data) == \A i, j \in 1..Len(data) : i < j => data[i][2] <= data[j][2]
TiesByAscendingKey(data) ==
    \A i, j \in 1..Len(data) : (i < j /\ data[i][2] = data[j][2]) => data[i][1] < data[j][1]

BarTitles == {"City Transactions", "Bank Transactions", "Transaction Types"}
Produced == {t \in TitleSet : all_charts[t] # NoChart}

\* C7 as stated: the series of each of the three bar-style charts has one
\* (key, sum) pair per distinct present dimension value, in descending order
\* of sum, equal sums in ascending key order.
C7_BarSeriesDescending ==
    \A t \in BarTitles \cap Produced :
       /\ OnePairPerGroup(all_charts[t])
       /\ DescendingBySum(all_charts[t].data)
       /\ TiesByAscendingKey(all_charts[t].data)

\* C7 as amended: one (key, sum) pair per distinct present dimension value;
\* the city and transaction-type charts are in descending order of sum, the
\* bank chart in ascending order of sum; nothing is said of equal sums.
\* City = NY, NY, LA with Amount = 10, 20, 5 charts as [(NY, 30), (LA, 5)].
C7_BarSeriesOrdered ==
    /\ \A t \in BarTitles \cap Produced :
          /\ OnePairPerGroup(all_charts[t])
          /\ IF t = "Bank Transactions"
             THEN AscendingBySum(all_charts[t].data)
             ELSE DescendingBySum(all_charts[t].data)
    /\ ("City Transactions" \in Produced /\ uploaded = [ext |-> "xlsx", content |-> ExampleTable])
          => all_charts["City Transactions"].data = << <<2, 30>>, <<1, 5>> >>

\* The three bar-style charts of one table, with sums that differ and a key
\* order that is not the order of the sums.
C7_Witness ==
    /\ BarTitles \subseteq Produced
    /\ \A t \in BarTitles : Len(all_charts[t].data) = 2
    /\ all_charts["City Transactions"].data[1][1] > all_charts["City Transactions"].data[2][1]
    /\ all_charts["City Transactions"].data[1][2] > all_charts["City Transactions"].data[2][2]
    /\ all_charts["Bank Transactions"].data[1][2] < all_charts["Bank Transactions"].data[2][2]
    /\ all_charts["Transaction Types"].data[1][2] > all_charts["Transaction Types"].data[2][2]

\* A chart's two roles are bound: neither selector returned None or another
\* falsy column label (the integer 0).
IsFalsy(name) == name = None \/ name = IntName(<<"0">>)
Bound(t) == ~IsFalsy(selectors[t].dim) /\ ~IsFalsy(selectors[t].val)

\* C8: once the four tabs have run, every chart whose roles are both bound
\* has been produced and rendered, a chart with an unbound role is absent
\* and has only produced its warning, and the HTML export was handed exactly
\* the produced charts.
C8_ChartFailureIsolated ==
    /\ TabsDone =>
         \A t \in TitleSet :
            /\ Bound(t) => (t \in Produced /\ t \in rendered /\ t \notin warnings)
            /\ ~Bound(t) => (t \notin Produced /\ t \notin rendered /\ t \in warnings)
    /\ html_link.present =>
         {html_link.blob[i].title : i \in 1..Len(html_link.blob)} = {t \in TitleSet : Bound(t)}
    /\ html_link.present =>
         \A i \in 1..Len(html_link.blob) : html_link.blob[i].chart = all_charts[html_link.blob[i].title]

\* The four tabs have run, the first chart has an unbound role and the
\* other three were produced.
C8_Witness ==
    /\ pc = "export_excel"
    /\ ~Bound("City Transactions")
    /\ Produced = TitleSet \ {"City Transactions"}
    /\ rendered = Produced

\* Parsing a workbook back (pd.read_excel on the blob): its first sheet.
ReadWorkbook(blob) ==
    IF Len(blob) = 0 THEN Raise("ValueError") ELSE ReadExcel(blob[1])

\* C9: the blob of the Excel download link parses back to the loaded table.
ExportRan ==
    \/ pc = "export_html"
    \/ pc = "done" /\ error = "IndexError"
    \/ pc = "done" /\ excel_link.present
C9_ExportRoundTrip ==
    ExportRan =>
      /\ excel_link.present
      /\ ReadWorkbook(excel_link.blob) = Return(df)

\* The table the uploaded file decodes to.
Decoded(upload) ==
    IF upload.ext = "csv" THEN ParseCsv(upload.content) ELSE ReadExcel(upload.content).value

\* C10: the table of the current run is the one decoded from the file
\* uploaded last; no other source is read.
C10_TableIsLastUpload ==
    /\ Loaded => df = Decoded(uploaded)
    /\ error # "FileNotFoundError"

\* The tabs whose selectors have been shown in the current run.
RanTabs ==
    CASE pc = "tab_account" -> {"City Transactions"}
      [] pc = "tab_bank"    -> {"City Transactions", "Account Types"}
      [] pc = "tab_type"    -> {"City Transactions", "Account Types", "Bank Transactions"}
      [] TabsDone           -> TitleSet
      [] OTHER              -> {}

\* The dimension and the value role of each tab, as entries of RoleTable.
DimRoleOf(t) ==
    CASE t = "City Transactions" -> RoleTable[1]
      [] t = "Account Types"     -> RoleTable[3]
      [] t = "Bank Transactions" -> RoleTable[5]
      [] t = "Transaction Types" -> RoleTable[7]
ValRoleOf(t) ==
    CASE t = "City Transactions" -> RoleTable[2]
      [] t = "Account Types"     -> RoleTable[4]
      [] t = "Bank Transactions" -> RoleTable[6]
      [] t = "Transaction Types" -> RoleTable[8]

\* A default index that a selector of that many options accepts.
WithinOptions(index, options) ==
    Len(options) = 0 \/ (0 <= index /\ index < Len(options))

StrLabels == \A i \in 1..Len(df) : df[i].name.kind = "str"

\* C11: in every tab that has run, the column first shown in the dimension
\* selector and in the value selector is the one the two-stage search
\* designates for that role, whenever it designates one; and every default
\* index lies within its selector's options, so that no selector rejects it.
\* (Stated for tables whose column labels are strings, which is what a
\* keyword match is defined on.)
C11_DefaultIsTwoStage ==
    /\ error # "StreamlitAPIException"
    /\ Suggestions =>
         \A k \in 1..Len(RoleTable) :
            WithinOptions(IF RoleTable[k].dimension
                          THEN DimensionIndex(df, Binding(RoleTable[k]))
                          ELSE ValueIndex(df, column_types, Binding(RoleTable[k])),
                          Eligible(RoleTable[k]))
    /\ StrLabels =>
         \A t \in RanTabs :
            /\ TwoStage(DimRoleOf(t)) # None => selectors[t].dim_default = TwoStage(DimRoleOf(t))
            /\ TwoStage(ValRoleOf(t)) # None => selectors[t].val_default = TwoStage(ValRoleOf(t))

\* C12: in a table of 1 to 20 rows, every numeric column with at least one
\* present value is classified metric, never categorical_numeric; it is
\* offered by the value selectors and by no dimension selector.
C12_ShortTableNumericIsMetric ==
    Detected =>
      \A i \in 1..Len(df) :
         ( /\ df[i].dtype = "numeric"
           /\ 1 <= RowCount(df[i]) /\ RowCount(df[i]) <= 20
           /\ DistinctPresent(df[i]) >= 1 )
         => /\ TypeOf(i) = "metric"
            /\ df[i].name \in Range(MetricCols(column_types))
            /\ df[i].name \notin Range(CategoricalCols(column_types))
            /\ \A t \in RanTabs :
                 selectors[t].dim # df[i].name /\ selectors[t].dim_default # df[i].name

\* The four tabs have run on a table of 20 rows whose numeric column holds
\* one value throughout (u / n = 0.05): it is a metric, and the dimension
\* selectors offered nothing.
C12_Witness ==
    /\ TabsDone
    /\ \E i \in 1..Len(df) :
         /\ df[i].dtype = "numeric"
         /\ RowCount(df[i]) = 20
         /\ DistinctPresent(df[i]) = 1
         /\ TypeOf(i) = "metric"
         /\ selectors["City Transactions"].val_default = df[i].name
         /\ selectors["City Transactions"].dim = None

====
